---- MODULE Spec2Model ----
(***************************************************************************)
(* State-machine model of the photo-sharing application in src/app.py and  *)
(* src/models.py: the relational store (users, photos, likes, saves,       *)
(* comments), the stored files, the login sessions and the request         *)
(* handlers.  Handlers whose read and write can interleave with another    *)
(* request (register, toggle_like, toggle_save) are split into a read step *)
(* and a commit step carried by a worker; the others run in one step.      *)
(***************************************************************************)
EXTENDS Integers, Sequences, FiniteSets, Bags, TLC

\* ------------------------------------------------------------------ bounds
MaxUsers == 2          \* User rows ever inserted
MaxPhotos == 2         \* Photo rows ever inserted
MaxComments == 1       \* Comment rows ever inserted
MaxClock == 1          \* seconds the upload clock may advance

\* ------------------------------------------------------- input domains
Clients == {"c1", "c2"}
Workers == {"w1", "w2"}
Usernames == {"alice", "bob"}
Passwords == {"pw1", "pw2"}
Roles == {"creator", "consumer"}
PhotoIds == 1..MaxPhotos
Anonymous == 0

\* ------------------------------------------------------- configuration
AZURE_CONTAINER_NAME == "photos"
LOCAL_UPLOAD_FOLDER == "static/uploads"

VARIABLES
    db_backend,           \* "sqlite" (fallback) or "postgresql"
    blob_service_client,  \* TRUE when the blob client was created at startup
    users,                \* set of User rows
    nextUserId,
    session,              \* client -> logged-in user id, or Anonymous
    photos,               \* set of Photo rows
    nextPhotoId,
    likes,                \* bag of Like rows
    saves,                \* bag of Save rows
    comments,             \* set of Comment rows
    nextCommentId,
    files,                \* stored blobs / local files: set of [store, name]
    clock,                \* datetime.utcnow() at one-second resolution
    req,                  \* worker -> request in flight
    last,                 \* the outcome of the request step taken last
    twice                 \* monitor: two successive toggles of one (user, photo)

config == <<db_backend, blob_service_client>>
userVars == <<users, nextUserId>>
photoVars == <<photos, nextPhotoId>>
joinVars == <<likes, saves>>
commentVars == <<comments, nextCommentId>>
fileVars == <<files, clock>>
vars == <<db_backend, blob_service_client, users, nextUserId, session, photos,
          nextPhotoId, likes, saves, comments, nextCommentId, files, clock,
          req, last, twice>>

\* --------------------------------------------------------- persistence
\* SQLite (the fallback database) does not enforce foreign keys unless asked
\* to; PostgreSQL always does.
ForeignKeysEnforced == db_backend = "postgresql"

UserRow(id, username, password, role) ==
    [id |-> id, username |-> username, password |-> password, role |-> role]

PhotoRow(id, filename, auto_tags, user_id) ==
    [id |-> id, filename |-> filename, auto_tags |-> auto_tags, user_id |-> user_id]

JoinRow(user_id, photo_id) == [user_id |-> user_id, photo_id |-> photo_id]

CommentRow(id, text, user_id, photo_id) ==
    [id |-> id, text |-> text, user_id |-> user_id, photo_id |-> photo_id]

\* Query.filter_by(username=...).first(): the row of lowest id, or none.
UsersNamed(username) == {u \in users : u.username = username}
FirstUserNamed(username) ==
    CHOOSE u \in UsersNamed(username) : \A v \in UsersNamed(username) : u.id <= v.id

\* User.query.get(id) / Photo.query.get(id)
UserById(id) == CHOOSE u \in users : u.id = id
PhotoExists(photo_id) == \E p \in photos : p.id = photo_id
PhotoById(photo_id) == CHOOSE p \in photos : p.id = photo_id

\* generate_password_hash / check_password_hash
generate_password_hash(password) == <<"scrypt", password>>
check_password_hash(pwhash, password) ==
    /\ Len(pwhash) = 2
    /\ pwhash[1] = "scrypt"
    /\ pwhash[2] = password

\* ------------------------------------------------------------ responses
NoReq == [op |-> "idle", user |-> Anonymous, photo |-> 0, existing |-> FALSE,
          username |-> "", password |-> "", role |-> ""]

Resp(op, user, photo, status, flag, msg) ==
    [op |-> op, user |-> user, photo |-> photo, status |-> status,
     flag |-> flag, msg |-> msg]

NoResp == Resp("none", Anonymous, 0, 0, FALSE, "")

\* @login_required on an anonymous session: redirect to the login view.
LoginRedirect(op) == Resp(op, Anonymous, 0, 302, FALSE, "login")

NoTrack == [phase |-> 0, kind |-> "", user |-> Anonymous, photo |-> 0,
            worker |-> "", snap |-> EmptyBag]

\* ------------------------------------------------------------- register
\* (variant: the column declared without unique=True)
NoUniqueConstraint(username) == TRUE

\* The UNIQUE constraint on user.username, enforced by the database at commit.
UsernameUnique(username) == UsersNamed(username) = {}

\* register(), up to the existence check.
RegisterCheck(w, c, username, password, role) ==
    /\ req[w].op = "idle"
    /\ nextUserId <= MaxUsers
    /\ IF session[c] # Anonymous
         THEN /\ last' = Resp("register", session[c], 0, 302, FALSE, "feed")
              /\ UNCHANGED req
         ELSE IF UsersNamed(username) # {}
         THEN /\ last' = Resp("register", Anonymous, 0, 302, FALSE, "Username taken")
              /\ UNCHANGED req
         ELSE /\ req' = [req EXCEPT ![w] =
                    [NoReq EXCEPT !.op = "register", !.username = username,
                                  !.password = password, !.role = role]]
              /\ last' = Resp("register", Anonymous, 0, 0, FALSE, "checked")
    /\ twice' = NoTrack
    /\ UNCHANGED <<config, userVars, session, photoVars, joinVars, commentVars,
                   fileVars>>

\* register(), db.session.add(new_user); db.session.commit().
RegisterCommit(w) ==
    /\ req[w].op = "register"
    /\ IF UsernameUnique(req[w].username)
         THEN /\ users' = users \cup
                    {UserRow(nextUserId, req[w].username,
                             generate_password_hash(req[w].password), req[w].role)}
              /\ nextUserId' = nextUserId + 1
              /\ last' = Resp("register", Anonymous, 0, 302, TRUE, "Account created")
         ELSE \* IntegrityError, not handled: internal server error
              /\ last' = Resp("register", Anonymous, 0, 500, FALSE, "IntegrityError")
              /\ UNCHANGED userVars
    /\ req' = [req EXCEPT ![w] = NoReq]
    /\ twice' = NoTrack
    /\ UNCHANGED <<config, session, photoVars, joinVars, commentVars, fileVars>>

\* ---------------------------------------------------------------- login
\* (variant: the role check left out)
RoleIgnored(user, role) == TRUE

\* user.role == request.form.get('role')
RoleMatches(user, role) == user.role = role

Login(c, username, password, role) ==
    /\ IF /\ UsersNamed(username) # {}
          /\ check_password_hash(FirstUserNamed(username).password, password)
         THEN IF RoleMatches(FirstUserNamed(username), role)
                THEN /\ session' = [session EXCEPT ![c] = FirstUserNamed(username).id]
                     /\ last' = Resp("login", FirstUserNamed(username).id, 0, 302, TRUE,
                                     IF role = "creator" THEN "creator_dashboard"
                                                         ELSE "feed")
                ELSE /\ last' = Resp("login", session[c], 0, 200, FALSE, "Incorrect Role")
                     /\ UNCHANGED session
         ELSE /\ last' = Resp("login", session[c], 0, 200, FALSE, "Invalid credentials")
              /\ UNCHANGED session
    /\ twice' = NoTrack
    /\ UNCHANGED <<config, userVars, photoVars, joinVars, commentVars, fileVars, req>>

Logout(c) ==
    /\ IF session[c] = Anonymous
         THEN /\ last' = LoginRedirect("logout")
              /\ UNCHANGED session
         ELSE /\ session' = [session EXCEPT ![c] = Anonymous]
              /\ last' = Resp("logout", session[c], 0, 302, TRUE, "login")
    /\ twice' = NoTrack
    /\ UNCHANGED <<config, userVars, photoVars, joinVars, commentVars, fileVars, req>>

\* ----------------------------------------------------- likes and saves
\* Photo.likes / Photo.saves: the join rows whose photo_id is the photo's id.
PhotoLikes(photo_id) == {r \in BagToSet(likes) : r.photo_id = photo_id}
PhotoSaves(photo_id) == {r \in BagToSet(saves) : r.photo_id = photo_id}

\* (variant: is_liked_by querying self.saves)
is_liked_by_saves(photo_id, user_id) ==
    Cardinality({r \in PhotoSaves(photo_id) : r.user_id = user_id}) > 0

\* Photo.is_liked_by(user) / Photo.is_saved_by(user): filter_by(user_id).count() > 0
is_liked_by(photo_id, user_id) ==
    Cardinality({r \in PhotoLikes(photo_id) : r.user_id = user_id}) > 0
is_saved_by(photo_id, user_id) ==
    Cardinality({r \in PhotoSaves(photo_id) : r.user_id = user_id}) > 0

Rows(kind) == IF kind = "like" THEN likes ELSE saves

\* (variant: the join tables declared without the composite primary key)
NoPrimaryKey(table, row) == TRUE

\* The composite primary key (user_id, photo_id) of likes / saves: an INSERT of
\* a key that is already there fails with IntegrityError.
PrimaryKeyFree(table, row) == ~BagIn(row, table)

\* The foreign key photo_id -> photo.id, where the database enforces it.
PhotoKeyValid(photo_id) == ForeignKeysEnforced => PhotoExists(photo_id)

InsertRow(table, row) == table (+) SetToBag({row})

\* (variant: the existing row is not deleted)
DeleteRowKeepsRow(table, row) == table

\* DELETE ... WHERE user_id = ? AND photo_id = ?  (no row matched: a warning)
DeleteRow(table, row) == [r \in (DOMAIN table) \ {row} |-> table[r]]

\* monitor of two successive toggles (not program state)
TrackRead(kind, w, u, p) ==
    IF twice.phase = 2 /\ twice.kind = kind /\ twice.user = u /\ twice.photo = p
      THEN [twice EXCEPT !.phase = 3, !.worker = w]
      ELSE [phase |-> 1, kind |-> kind, user |-> u, photo |-> p, worker |-> w,
            snap |-> Rows(kind)]

TrackCommit(kind, w) ==
    IF twice.phase \in {1, 3} /\ twice.kind = kind /\ twice.worker = w
      THEN [twice EXCEPT !.phase = twice.phase + 1]
      ELSE NoTrack

\* toggle_like / toggle_save up to the read of the existing row.
ToggleRead(kind, w, c, photo_id) ==
    /\ req[w].op = "idle"
    /\ IF session[c] = Anonymous
         THEN /\ last' = LoginRedirect(kind)
              /\ twice' = NoTrack
              /\ UNCHANGED req
         ELSE IF ~PhotoExists(photo_id)
         THEN /\ last' = Resp(kind, session[c], photo_id, 404, FALSE, "Not Found")
              /\ twice' = NoTrack
              /\ UNCHANGED req
         ELSE /\ req' = [req EXCEPT ![w] =
                    [NoReq EXCEPT !.op = kind, !.user = session[c], !.photo = photo_id,
                       !.existing = BagIn(JoinRow(session[c], photo_id), Rows(kind))]]
              /\ last' = Resp(kind, session[c], photo_id, 0, FALSE, "read")
              /\ twice' = TrackRead(kind, w, session[c], photo_id)
    /\ UNCHANGED <<config, userVars, session, photoVars, joinVars, commentVars,
                   fileVars>>

\* The table after the delete-or-insert and commit of a toggle, and whether the
\* commit succeeded.
ToggleWrite(table, row, existing) ==
    IF existing
      THEN [ok |-> TRUE, flag |-> FALSE, table |-> DeleteRow(table, row)]
      ELSE IF PrimaryKeyFree(table, row) /\ PhotoKeyValid(row.photo_id)
      THEN [ok |-> TRUE, flag |-> TRUE, table |-> InsertRow(table, row)]
      ELSE [ok |-> FALSE, flag |-> FALSE, table |-> table]

\* toggle_like / toggle_save from the delete-or-insert to the response.
ToggleCommit(kind, w) ==
    /\ req[w].op = kind
    /\ LET row == JoinRow(req[w].user, req[w].photo)
           out == ToggleWrite(Rows(kind), row, req[w].existing)
       IN  /\ IF kind = "like"
                THEN likes' = out.table /\ UNCHANGED saves
                ELSE saves' = out.table /\ UNCHANGED likes
           /\ IF ~out.ok
                THEN last' = Resp(kind, req[w].user, req[w].photo, 500, FALSE,
                                  "IntegrityError")
                ELSE IF kind = "like" /\ ~PhotoExists(req[w].photo)
                THEN \* photo.likes.count() on a photo row deleted meanwhile
                     \E st \in {200, 500} :
                        last' = Resp(kind, req[w].user, req[w].photo, st, out.flag,
                                     IF st = 200 THEN "toggled" ELSE "ObjectDeletedError")
                ELSE last' = Resp(kind, req[w].user, req[w].photo, 200, out.flag,
                                  "toggled")
    /\ req' = [req EXCEPT ![w] = NoReq]
    /\ twice' = TrackCommit(kind, w)
    /\ UNCHANGED <<config, userVars, session, photoVars, commentVars, fileVars>>

toggle_like_read(w, c, photo_id) == ToggleRead("like", w, c, photo_id)
toggle_like_commit(w) == ToggleCommit("like", w)
toggle_save_read(w, c, photo_id) == ToggleRead("save", w, c, photo_id)
toggle_save_commit(w) == ToggleCommit("save", w)

\* -------------------------------------------------------------- comments
Texts == {"strongly negative", "borderline", "plain"}

\* TextBlob(text).sentiment.polarity, in hundredths
Polarity(text) ==
    CASE text = "strongly negative" -> -31
      [] text = "borderline" -> -30
      [] OTHER -> 0

Blocked(score) == score < -30

Sentiment(score) ==
    IF score >= 30 THEN "positive"
    ELSE IF score <= -10 THEN "negative"
    ELSE "neutral"

add_comment(c, photo_id, text) ==
    /\ nextCommentId <= MaxComments
    /\ IF session[c] = Anonymous
         THEN /\ last' = LoginRedirect("add_comment")
              /\ UNCHANGED commentVars
         ELSE IF Blocked(Polarity(text))
         THEN /\ last' = Resp("add_comment", session[c], photo_id, 200, FALSE,
                              "AI Blocked")
              /\ UNCHANGED commentVars
         ELSE IF PhotoKeyValid(photo_id)
         THEN /\ comments' = comments \cup
                    {CommentRow(nextCommentId, text, session[c], photo_id)}
              /\ nextCommentId' = nextCommentId + 1
              /\ last' = Resp("add_comment", session[c], photo_id, 200, TRUE,
                              Sentiment(Polarity(text)))
         ELSE \* IntegrityError (foreign key), not handled
              /\ last' = Resp("add_comment", session[c], photo_id, 500, FALSE,
                              "IntegrityError")
              /\ UNCHANGED commentVars
    /\ twice' = NoTrack
    /\ UNCHANGED <<config, userVars, session, photoVars, joinVars, fileVars, req>>

\* ---------------------------------------------------------------- upload
\* An uploaded file as PIL sees it: whether Image.open() accepts the header,
\* the mode, whether the pixel data decodes (load), whether the statistics
\* can be computed, and the features analyze_image reads.
Image(opens, mode, loads, stats, width, height, brightness, rgb) ==
    [opens |-> opens, mode |-> mode, loads |-> loads, stats |-> stats,
     width |-> width, height |-> height, brightness |-> brightness, rgb |-> rgb]

NoFile == Image(FALSE, "", FALSE, FALSE, 0, 0, 0, <<0, 0, 0>>)

UploadedFiles ==
    { Image(TRUE, "P", TRUE, TRUE, 2000, 1000, 200, <<200, 60, 50>>),   \* sound
      Image(TRUE, "RGB", TRUE, FALSE, 640, 480, 100, <<90, 90, 90>>),  \* statistics fail
      Image(TRUE, "RGB", FALSE, TRUE, 640, 480, 100, <<90, 90, 90>>),  \* truncated, small
      Image(TRUE, "RGB", FALSE, TRUE, 2000, 1000, 100, <<90, 90, 90>>),\* truncated, large
      Image(TRUE, "P", FALSE, TRUE, 640, 480, 100, <<90, 90, 90>>),    \* truncated, palette
      Image(FALSE, "", FALSE, FALSE, 640, 480, 0, <<0, 0, 0>>) }       \* not an image

Titles == {"Sunset", ""}          \* "" stands for a missing title field
Filenames == {"a.jpg"}            \* secure_filename(file.filename)
IoOutcomes == {"ok", "save_error", "down"}

StandardPhoto == <<"Standard Photo">>

\* (variant: the except branch returns the tags gathered so far)
analyze_image_partial(img) ==
    IF ~img.loads \/ ~img.stats
      THEN << IF img.width * img.height > 1000000 THEN "HD" ELSE "SD" >>
      ELSE << IF img.width * img.height > 1000000 THEN "HD" ELSE "SD",
              "Neutral Lighting", "Balanced Color" >>

\* analyze_image(img_obj): the tags, joined by " | "; any exception inside
\* gives the fallback label.
analyze_image(img) ==
    IF ~img.loads \/ ~img.stats
      THEN StandardPhoto
      ELSE << IF img.width * img.height > 1000000 THEN "HD" ELSE "SD",
              IF img.brightness > 150 THEN "Bright"
              ELSE IF img.brightness < 80 THEN "Dark"
              ELSE "Neutral Lighting",
              IF img.rgb[1] > img.rgb[2] /\ img.rgb[1] > img.rgb[3] THEN "Warm Tone"
              ELSE IF img.rgb[3] > img.rgb[1] /\ img.rgb[3] > img.rgb[2] THEN "Cool Tone"
              ELSE "Balanced Color" >>

\* Image.open(file) and img.convert('RGB') in the handler raise
DecodeRaises(img) == ~img.opens \/ (img.mode # "RGB" /\ ~img.loads)

\* img.thumbnail((1080, 1080)) loads the pixels only when it has to shrink
ThumbnailRaises(img) == ~img.loads /\ (img.width > 1080 \/ img.height > 1080)

\* img.save(...) raises
SaveRaises(img, io) == ~img.loads \/ io # "ok"

BlobName(filename) == <<clock, filename>>
AzureUrl(b_name) == <<"https://account.blob.core.windows.net", AZURE_CONTAINER_NAME, b_name>>
LocalUrl(b_name) == <<"http://localhost", LOCAL_UPLOAD_FOLDER, b_name>>

\* The storage step of the upload: [raised, configured, file, url]
StoreUpload(img, filename, io) ==
    IF blob_service_client /\ AZURE_CONTAINER_NAME # ""
      THEN [configured |-> TRUE,
            raised |-> SaveRaises(img, "ok") \/ io # "ok",
            file |-> [store |-> "azure", name |-> BlobName(filename)],
            url |-> AzureUrl(BlobName(filename))]
      ELSE IF LOCAL_UPLOAD_FOLDER # ""
      THEN [configured |-> TRUE,
            raised |-> SaveRaises(img, io) /\ io = "down",
            file |-> [store |-> "local", name |-> BlobName(filename)],
            url |-> LocalUrl(BlobName(filename))]
      ELSE [configured |-> FALSE, raised |-> FALSE,
            file |-> [store |-> "none", name |-> BlobName(filename)],
            url |-> <<"", "", BlobName(filename)>>]

\* creator_dashboard(), POST
creator_dashboard(c, file, filename, title, io) ==
    /\ nextPhotoId <= MaxPhotos
    /\ LET u == session[c]
           st == StoreUpload(file, filename, io)
           Fail(status, msg) ==
               /\ last' = Resp("upload", u, 0, status, FALSE, msg)
               /\ UNCHANGED <<photoVars, files>>
       IN  IF u = Anonymous
             THEN /\ last' = LoginRedirect("upload")
                  /\ UNCHANGED <<photoVars, files>>
           ELSE IF UserById(u).role # "creator"
             THEN Fail(302, "Only Creators can upload photos.")
           ELSE IF file = NoFile
             THEN Fail(200, "form")
           ELSE IF DecodeRaises(file) \/ ThumbnailRaises(file)
             THEN Fail(200, "Upload Error")
           ELSE IF ~st.configured
             THEN Fail(200, "No storage configured for uploads.")
           ELSE IF st.raised
             THEN Fail(200, "Upload Error")
           ELSE IF title = ""
             THEN \* the file is stored, the INSERT fails (title is NOT NULL)
                  /\ files' = files \cup {st.file}
                  /\ last' = Resp("upload", u, 0, 200, FALSE, "Upload Error")
                  /\ UNCHANGED photoVars
           ELSE /\ files' = files \cup {st.file}
                /\ photos' = photos \cup
                      {PhotoRow(nextPhotoId, st.url, analyze_image(file), u)}
                /\ nextPhotoId' = nextPhotoId + 1
                /\ last' = Resp("upload", u, nextPhotoId, 302, TRUE, "Photo uploaded")
    /\ twice' = NoTrack
    /\ UNCHANGED <<config, userVars, session, joinVars, commentVars, clock, req>>

\* a second passes: the timestamp prefix of the next stored name changes
Tick ==
    /\ clock < MaxClock
    /\ clock' = clock + 1
    /\ UNCHANGED <<config, userVars, session, photoVars, joinVars, commentVars, files,
                   req, last, twice>>

\* ---------------------------------------------------------------- delete
\* delete_post(): the best-effort removal of the stored file
RemoveStoredFile(filename, rmFails) ==
    IF filename[1] \in {"https://account.blob.core.windows.net", "http://localhost"}
       /\ AZURE_CONTAINER_NAME # "" /\ blob_service_client
      THEN IF filename[2] = AZURE_CONTAINER_NAME /\ ~rmFails
             THEN files \ {[store |-> "azure", name |-> filename[3]]}
             ELSE files
      ELSE IF filename[2] = LOCAL_UPLOAD_FOLDER /\ ~rmFails
             THEN files \ {[store |-> "local", name |-> filename[3]]}
             ELSE files

\* The stored object a Photo.filename refers to: the blob under a blob URL of
\* the container, the file of the upload folder under a local URL
StoredFile(filename) ==
    [store |-> IF filename[1] = "https://account.blob.core.windows.net"
                 THEN "azure" ELSE "local",
     name |-> filename[3]]

\* Photo.comments, cascade="all, delete-orphan"
PhotoComments(photo_id) == {cm \in comments : cm.photo_id = photo_id}
\* (variant: the relationship declared without cascade)
NoCascade(photo_id) == comments
CascadeDelete(photo_id) == comments \ PhotoComments(photo_id)

\* db.session.delete(photo) with Like/Save rows attached: the relationship has
\* no delete cascade, so the unit of work tries to null their photo_id, which
\* is part of their primary key, and the flush raises.
DeleteRaises(photo_id) == PhotoLikes(photo_id) # {} \/ PhotoSaves(photo_id) # {}

\* (variant: the ownership check left out)
AnyoneOwns(photo_id, u) == TRUE

\* photo.user_id != current_user.id is the refusal
IsOwner(photo_id, u) == PhotoById(photo_id).user_id = u

delete_post(u, photo_id, rmFails) ==
    IF ~PhotoExists(photo_id)
      THEN /\ last' = Resp("delete_post", u, photo_id, 404, FALSE, "Not Found")
           /\ UNCHANGED <<photoVars, commentVars, files>>
    ELSE IF ~IsOwner(photo_id, u)
      THEN /\ last' = Resp("delete_post", u, photo_id, 403, FALSE, "Not authorized")
           /\ UNCHANGED <<photoVars, commentVars, files>>
    ELSE /\ files' = RemoveStoredFile(PhotoById(photo_id).filename, rmFails)
         /\ IF DeleteRaises(photo_id)
              THEN /\ last' = Resp("delete_post", u, photo_id, 500, FALSE,
                                   "DB delete failed")
                   /\ UNCHANGED <<photoVars, commentVars>>
              ELSE /\ photos' = photos \ {PhotoById(photo_id)}
                   /\ comments' = CascadeDelete(photo_id)
                   /\ last' = Resp("delete_post", u, photo_id, 200, TRUE, "deleted")
                   /\ UNCHANGED <<nextPhotoId, nextCommentId>>

\* POST /post/<id>/delete
DeletePostRoute(c, photo_id, rmFails) ==
    /\ IF session[c] = Anonymous
         THEN /\ last' = LoginRedirect("delete_post")
              /\ UNCHANGED <<photoVars, commentVars, files>>
         ELSE delete_post(session[c], photo_id, rmFails)
    /\ twice' = NoTrack
    /\ UNCHANGED <<config, userVars, session, joinVars, clock, req>>

\* POST /debug/recent_photos with a photo_id field
debug_recent_photos(c, photo_id, rmFails) ==
    /\ IF session[c] = Anonymous
         THEN /\ last' = LoginRedirect("debug_recent_photos")
              /\ UNCHANGED <<photoVars, commentVars, files>>
         ELSE IF UserById(session[c]).role # "creator"
         THEN /\ last' = Resp("debug_recent_photos", session[c], photo_id, 302, FALSE,
                              "Access denied")
              /\ UNCHANGED <<photoVars, commentVars, files>>
         ELSE delete_post(session[c], photo_id, rmFails)
    /\ twice' = NoTrack
    /\ UNCHANGED <<config, userVars, session, joinVars, clock, req>>

\* ------------------------------------------------------- specifications
\* The state after startup on an empty database.
Init ==
    /\ db_backend = "sqlite"
    /\ blob_service_client = FALSE
    /\ users = {}
    /\ nextUserId = 1
    /\ session = [c \in Clients |-> Anonymous]
    /\ photos = {}
    /\ nextPhotoId = 1
    /\ likes = EmptyBag
    /\ saves = EmptyBag
    /\ comments = {}
    /\ nextCommentId = 1
    /\ files = {}
    /\ clock = 0
    /\ req = [w \in Workers |-> NoReq]
    /\ last = NoResp
    /\ twice = NoTrack

AuthNext ==
    \/ \E w \in Workers, c \in Clients, n \in Usernames, pw \in Passwords, r \in Roles :
          RegisterCheck(w, c, n, pw, r)
    \/ \E w \in Workers : RegisterCommit(w)
    \/ \E c \in Clients, n \in Usernames, pw \in Passwords, r \in Roles :
          Login(c, n, pw, r)
    \/ \E c \in Clients : Logout(c)

SpecAuth == Init /\ [][AuthNext]_vars

\* A running site: alice (a creator) and bob (with a role of bobRoles) have
\* registered and logged in from one client each, and alice has uploaded
\* nSeed photos in the first second.
SoundImage == Image(TRUE, "P", TRUE, TRUE, 2000, 1000, 200, <<200, 60, 50>>)

SeedName(id) == <<0, IF id = 1 THEN "a.jpg" ELSE "b.jpg">>
SeedFile(id) ==
    [store |-> IF blob_service_client THEN "azure" ELSE "local", name |-> SeedName(id)]
SeedPhoto(id) ==
    PhotoRow(id, IF blob_service_client THEN AzureUrl(SeedName(id))
                                        ELSE LocalUrl(SeedName(id)),
             analyze_image(SoundImage), 1)

Running(backends, clients, bobRoles, nSeed) ==
    /\ db_backend \in backends
    /\ blob_service_client \in clients
    /\ \E r \in bobRoles :
          users = { UserRow(1, "alice", generate_password_hash("pw1"), "creator"),
                    UserRow(2, "bob", generate_password_hash("pw2"), r) }
    /\ nextUserId = 3
    /\ session = [c \in Clients |-> IF c = "c1" THEN 1 ELSE 2]
    /\ photos = {SeedPhoto(id) : id \in 1..nSeed}
    /\ nextPhotoId = nSeed + 1
    /\ likes = EmptyBag
    /\ saves = EmptyBag
    /\ comments = {}
    /\ nextCommentId = 1
    /\ files = {SeedFile(id) : id \in 1..nSeed}
    /\ clock = 0
    /\ req = [w \in Workers |-> NoReq]
    /\ last = NoResp
    /\ twice = NoTrack

\* concurrent like/save toggles on one photo, which its owner may delete
InitToggle == Running({"sqlite", "postgresql"}, BOOLEAN, {"consumer"}, 1)

ToggleNext ==
    \/ \E w \in Workers, c \in Clients, p \in PhotoIds : toggle_like_read(w, c, p)
    \/ \E w \in Workers : toggle_like_commit(w)
    \/ \E w \in Workers, c \in Clients, p \in PhotoIds : toggle_save_read(w, c, p)
    \/ \E w \in Workers : toggle_save_commit(w)
    \/ \E c \in Clients, p \in PhotoIds, rm \in BOOLEAN : DeletePostRoute(c, p, rm)

SpecToggle == InitToggle /\ [][ToggleNext]_vars

\* comments, likes and deletion of one photo kept in the local upload folder
InitPost == Running({"sqlite", "postgresql"}, {FALSE}, Roles, 1)

PostNext ==
    \/ \E c \in Clients, p \in PhotoIds, t \in Texts : add_comment(c, p, t)
    \/ \E c \in Clients, p \in PhotoIds : toggle_like_read("w1", c, p)
    \/ toggle_like_commit("w1")
    \/ \E c \in Clients, p \in PhotoIds, rm \in BOOLEAN : DeletePostRoute(c, p, rm)
    \/ \E c \in Clients, p \in PhotoIds, rm \in BOOLEAN : debug_recent_photos(c, p, rm)

SpecPost == InitPost /\ [][PostNext]_vars

\* uploads and deletions
InitUpload == Running({"postgresql"}, BOOLEAN, Roles, 1)

UploadNext ==
    \/ \E c \in Clients, f \in UploadedFiles \cup {NoFile}, n \in Filenames,
          t \in Titles, io \in IoOutcomes : creator_dashboard(c, f, n, t, io)
    \/ Tick
    \/ \E c \in Clients, p \in PhotoIds, rm \in BOOLEAN : DeletePostRoute(c, p, rm)

SpecUpload == InitUpload /\ [][UploadNext]_vars
\* The whole application from an empty database.  The specifications above
\* are this one restricted to the routes, and started in the running state,
\* that a property is about.
Next == AuthNext \/ ToggleNext \/ PostNext \/ UploadNext

Spec == Init /\ [][Next]_vars

\* ================================================================ claims

\* C1: two successive toggle_like calls by one user on one existing photo, with
\* no other request step in between, leave the Like rows as they were before the
\* first call; likewise toggle_save and the Save rows.
C1_ToggleTwiceRestores == twice.phase = 4 => Rows(twice.kind) = twice.snap

C1_Witness ==
    /\ twice.phase = 4
    /\ twice.kind = "save"
    /\ BagIn(JoinRow(twice.user, twice.photo), twice.snap)

\* C2: is_liked_by / is_saved_by hold exactly when the matching join row exists,
\* and the flag a toggle returns is the presence of the row after its commit.
C2_FlagsReflectRows ==
    /\ \A p \in photos, u \in users :
          /\ is_liked_by(p.id, u.id) <=> BagIn(JoinRow(u.id, p.id), likes)
          /\ is_saved_by(p.id, u.id) <=> BagIn(JoinRow(u.id, p.id), saves)
    /\ (last.op \in {"like", "save"} /\ last.status = 200) =>
          (last.flag <=> BagIn(JoinRow(last.user, last.photo), Rows(last.op)))

C2_Witness ==
    /\ last.op = "like"
    /\ last.status = 200
    /\ last.flag
    /\ PhotoExists(last.photo)
    /\ is_liked_by(last.photo, last.user)
    /\ BagIn(JoinRow(last.user, last.photo), saves)

\* C9: under any interleaving of toggle requests on one (user, photo) pair, no
\* state holds two Like rows or two Save rows for the pair.
C9_AtMostOneJoinRow ==
    /\ \A r \in DOMAIN likes : likes[r] <= 1
    /\ \A r \in DOMAIN saves : saves[r] <= 1

\* the second of two interleaved inserts was refused by the primary key
C9_Witness ==
    /\ last.op = "like"
    /\ last.status = 500
    /\ last.msg = "IntegrityError"
    /\ PhotoExists(last.photo)
    /\ BagIn(JoinRow(last.user, last.photo), likes)
\* C7: no two User rows share a username, also when two register requests for
\* one new username interleave between the existence check and the commit.
C7_UsernamesUnique ==
    \A u \in users, v \in users : u.username = v.username => u = v

\* the later of two interleaved registrations was refused at commit
C7_Witness ==
    /\ last.op = "register"
    /\ last.status = 500
    /\ \E u \in users : u.username \in Usernames

\* C8: a login step logs the client in exactly when a user of that name exists,
\* the password is the registered one and the submitted role is the stored
\* role; otherwise the session is left as it was.
C8_LoginOnlyIfAllMatch ==
    [][last'.op = "login" =>
       \A c \in Clients, n \in Usernames, pw \in Passwords, r \in Roles :
          Login(c, n, pw, r) =>
             LET ok == \E u \in users : /\ u.username = n
                                        /\ u.password = generate_password_hash(pw)
                                        /\ u.role = r
             IN  /\ last'.flag <=> ok
                 /\ ok => \E u \in users : u.username = n /\ session'[c] = u.id
                 /\ ~ok => session' = session]_vars

\* right password, wrong role, from an anonymous client
C8_Witness ==
    /\ last.op = "login"
    /\ last.msg = "Incorrect Role"
    /\ last.user = Anonymous
    /\ \A c \in Clients : session[c] = Anonymous
\* C3: an add_comment request whose polarity is below -0.3 is rejected and
\* creates no Comment row; every other request (the score -0.3 included)
\* persists exactly one Comment row with its text, user and photo id and
\* returns success.
C3_BlockedOrPersisted ==
    [][\A c \in Clients, p \in PhotoIds, t \in Texts :
          (add_comment(c, p, t) /\ session[c] # Anonymous) =>
             IF Polarity(t) < -30
               THEN ~last'.flag /\ comments' = comments
               ELSE /\ last'.flag
                    /\ Cardinality(comments' \ comments) = 1
                    /\ \E cm \in comments' \ comments :
                          cm.text = t /\ cm.user_id = session[c] /\ cm.photo_id = p]_vars

\* C5: when delete_post reports success the Photo row and every Comment row of
\* the photo are gone; when the database delete fails the answer is the 500
\* failure and the Photo row is still there.
C5_SuccessIffDeleted ==
    (last.op = "delete_post" /\ last.status \in {200, 500}) =>
       /\ last.flag <=> ~PhotoExists(last.photo)
       /\ last.flag => {cm \in comments : cm.photo_id = last.photo} = {}
       /\ last.status = 200 <=> last.flag
       /\ last.status = 500 <=>
             \E r \in BagToSet(likes) \cup BagToSet(saves) : r.photo_id = last.photo

\* a photo with a comment was deleted
C5_Witness ==
    /\ last.op = "delete_post"
    /\ last.flag
    /\ nextCommentId > 1
    /\ comments = {}

\* C6 as claimed: every delete request by a user who does not own the photo,
\* through either route, is answered with 403.
C6_NonOwnerGets403 ==
    ( /\ last.op \in {"delete_post", "debug_recent_photos"}
      /\ last.user # Anonymous
      /\ PhotoExists(last.photo)
      /\ PhotoById(last.photo).user_id # last.user )
    => last.status = 403

\* C6 as amended: a Photo row is removed only by a delete request of its owner;
\* a delete request by another user changes no photo, comment, like, save or
\* stored file and is answered with 403, or with the redirect "Access denied"
\* when it comes through the debug route from a user who is not a creator.
C6_OnlyOwnerDeletes ==
    [][ /\ photos' # photos =>
              \A ph \in photos \ photos' :
                 /\ last'.op = "delete_post"
                 /\ last'.flag
                 /\ last'.user = ph.user_id
                 /\ last'.photo = ph.id
        /\ last'.op \in {"delete_post", "debug_recent_photos"} =>
              \A c \in Clients, p \in PhotoIds, rm \in BOOLEAN :
                 ( /\ session[c] # Anonymous
                   /\ PhotoExists(p)
                   /\ PhotoById(p).user_id # session[c]
                   /\ DeletePostRoute(c, p, rm) \/ debug_recent_photos(c, p, rm) )
                 => /\ UNCHANGED <<photos, comments, likes, saves, files>>
                    /\ ~last'.flag
                    /\ last'.status \in {403, 302}
                    /\ last'.status = 302 <=>
                          /\ last'.op = "debug_recent_photos"
                          /\ UserById(session[c]).role # "creator" ]_vars

\* a non-owner was refused while the photo had a comment and its stored file
C6_Witness ==
    /\ last.op = "delete_post"
    /\ last.status = 403
    /\ PhotoExists(last.photo)
    /\ \E cm \in comments : cm.photo_id = last.photo
    /\ files # {}
\* C10 as claimed: with storage configured, an upload whose only trouble is a
\* decode or statistics error of the image still stores the file and creates
\* the Photo row, tagged "Standard Photo".
C10_AnyDecodeErrorFallsBack ==
    [][last'.op = "upload" =>
          \A c \in Clients, f \in UploadedFiles, n \in Filenames :
             ( /\ session[c] # Anonymous
               /\ UserById(session[c]).role = "creator"
               /\ ~f.opens \/ ~f.loads \/ ~f.stats
               /\ creator_dashboard(c, f, n, "Sunset", "ok") )
             => /\ last'.flag
                /\ \E ph \in photos' \ photos : ph.auto_tags = StandardPhoto
                /\ \E fl \in files' : fl.name = <<clock, n>> ]_vars

\* C10 as amended: an error while the handler opens or converts the upload
\* aborts it (nothing stored, no Photo row); an error inside analyze_image gives
\* the tags "Standard Photo" to whatever Photo row the upload creates, and the
\* upload goes through (file stored, row created) when the pixel data loads,
\* the storage write succeeds and the title is given.
C10_AnalysisErrorFallsBack ==
    [][last'.op = "upload" =>
          \A c \in Clients, f \in UploadedFiles, n \in Filenames, t \in Titles,
             io \in IoOutcomes :
             ( /\ session[c] = last'.user
               /\ session[c] # Anonymous
               /\ UserById(session[c]).role = "creator"
               /\ creator_dashboard(c, f, n, t, io) )
             => LET handlerError == ~f.opens \/ (f.mode # "RGB" /\ ~f.loads)
                    analysisError == ~handlerError /\ (~f.loads \/ ~f.stats)
                    new == photos' \ photos
                IN  /\ handlerError =>
                          /\ new = {}
                          /\ files' = files
                          /\ last'.msg = "Upload Error"
                    /\ analysisError =>
                          /\ \A ph \in new : ph.auto_tags = StandardPhoto
                          /\ (f.loads /\ io = "ok" /\ t # "") =>
                                /\ last'.flag
                                /\ new # {}
                                /\ \E fl \in files' : fl.name = <<clock, n>> ]_vars

\* an upload went through with the fallback tags
C10_Witness ==
    /\ last.op = "upload"
    /\ last.flag
    /\ \E ph \in photos : ph.id = last.photo /\ ph.auto_tags = StandardPhoto
    /\ files # {}

\* C11: referential integrity. In every reachable state each Like, Save and
\* Comment row refers to a Photo row that exists, and once the owner's delete
\* request for a photo has been carried out (neither 404 nor 403) no Like or
\* Save row for that photo is left.
C11_RowsReferToPhotos ==
    /\ \A r \in BagToSet(likes) \cup BagToSet(saves) : PhotoExists(r.photo_id)
    /\ \A cm \in comments : PhotoExists(cm.photo_id)
    /\ (last.op = "delete_post" /\ last.status \notin {403, 404})
         => (PhotoLikes(last.photo) = {} /\ PhotoSaves(last.photo) = {})

\* C12: atomicity of deletion. Every existing Photo row still has the stored
\* file its filename refers to, and after a delete request answered with a
\* failure (403 or 500) the Photo row is still there.
C12_PhotosKeepTheirFile ==
    /\ \A ph \in photos : StoredFile(ph.filename) \in files
    /\ (last.op = "delete_post" /\ last.status \in {403, 500})
         => PhotoExists(last.photo)
====
